---- MODULE Spec2Model ----
\* Model of src/main.py: the proof-of-account submission backend.
\* The actions are invocations of the route handlers (submit_poa, admin_login,
\* admin_logout, list_submissions, download_file); the two stores are the
\* GridFS bucket "uploads" and the collection db.submissions.
EXTENDS Integers, Sequences, FiniteSets, TLC

\* ---------------------------------------------------------------- bounds
MaxReq == 2        \* submit-poa requests in flight or finished
MaxFiles == 2      \* attachments of one request
MaxClock == 1      \* distinct readings of the server clock after the first
OidHexLen == 4     \* hexadecimal characters of an ObjectId string

\* ---------------------------------------------------------------- values
None == "None"                       \* Python's None
PyTrue == "True"                     \* Python's True
PyFalse == "False"                   \* Python's False
Sessions == {"s1", "s2"}             \* session cookies of two clients
Requests == 1..MaxReq

\* bson.ObjectId: a fixed-width value written in hexadecimal characters (24 in
\* bson; the model keeps the form and shortens the width to OidHexLen).
HexDigits == <<"0","1","2","3","4","5","6","7","8","9","a","b","c","d","e","f">>
UpperHex == <<"A","B","C","D","E","F">>

\* The k-th hexadecimal digit of n, counted from the right, k = 0 the lowest.
HexDigitAt(n, k) == (n \div (16 ^ k)) % 16

\* n as w hexadecimal characters, the highest digit first.
HexOf(n, w) == [i \in 1..w |-> HexDigits[HexDigitAt(n, w - i) + 1]]

\* str(ObjectId): the lower-case hexadecimal form.
StrOfOid(oid) == HexOf(oid, OidHexLen)

IsHexChar(c) ==
    \/ \E k \in 1..16 : HexDigits[k] = c
    \/ \E k \in 1..6 : UpperHex[k] = c

HexVal(c) ==
    IF \E k \in 1..16 : HexDigits[k] = c
    THEN (CHOOSE k \in 1..16 : HexDigits[k] = c) - 1
    ELSE (CHOOSE k \in 1..6 : UpperHex[k] = c) + 9

\* The number the first k characters of s spell.
RECURSIVE HexValue(_, _)
HexValue(s, k) ==
    IF k = 0 THEN 0 ELSE 16 * HexValue(s, k - 1) + HexVal(s[k])

\* ObjectId(file_id) accepts exactly OidHexLen hexadecimal characters and
\* raises InvalidId for anything else.
ValidOid(s) == Len(s) = OidHexLen /\ \A k \in 1..Len(s) : IsHexChar(s[k])

ObjectId(s) == HexValue(s, Len(s))

\* str() of a value that is already a str returns it unchanged.
StrOfStr(s) == s

\* ---------------------------------------------------------------- inputs
\* UploadFile values a client can attach: filename, declared content type
\* (None when the part carries no Content-Type header) and the bytes.
DocPdf == [filename |-> "receipt.pdf", content_type |-> "application/pdf",
           file |-> <<37, 80, 68, 70>>]
DocRaw == [filename |-> "scan", content_type |-> None, file |-> <<0>>]
Docs == {DocPdf, DocRaw}

SeqsUpTo(S, n) == UNION {[1..k -> S] : k \in 0..n}
DocumentLists == SeqsUpTo(Docs, MaxFiles)

JaneDoe == [fullName |-> "Jane Doe", email |-> "jane@x.com",
            paymentDate |-> "2024-01-01", accountDetails |-> "acct-123"]
Forms ==
    { JaneDoe,
      [fullName |-> "", email |-> "", paymentDate |-> "", accountDetails |-> ""] }
NoForm == [fullName |-> None, email |-> None, paymentDate |-> None,
           accountDetails |-> None]

VARIABLES
    session,      \* request.session of each client: a dict, key -> value
    blobs,        \* fs_bucket "uploads": ObjectId -> stored file
    submissions,  \* db.submissions in natural (insertion) order
    nextOid,      \* the next ObjectId the driver generates
    now,          \* datetime.utcnow(), in BSON's millisecond resolution
    req,          \* each submit_poa invocation: position and locals
    uploaded,     \* ids returned by upload_from_stream: ObjectId -> <<request, index>>
    resp          \* the latest /admin request and the response it got

vars == <<session, blobs, submissions, nextOid, now, req, uploaded, resp>>

\* ---------------------------------------------------------------- session
EmptySession == [k \in {} |-> TRUE]

\* dict.get(key): the value, or None when the key is absent.
DictGet(d, k) == IF k \in DOMAIN d THEN d[k] ELSE None

\* Python truthiness of the values a session holds.
Truthy(v) == v \notin {None, PyFalse}

DictSet(d, k, v) == [x \in DOMAIN d \cup {k} |-> IF x = k THEN v ELSE d[x]]

\* admin_required: TRUE when the dependency lets the call through, FALSE when
\* it raises HTTPException(403).
AlwaysAllowed(s) == TRUE
admin_required(s) == Truthy(DictGet(s, "admin"))

\* ---------------------------------------------------------------- submit_poa
\* A response: who asked for what (and whether the session carried a truthy
\* admin flag on arrival), the status, and the body of a 200 answer.
NoResp ==
    [sess |-> "-", op |-> "none", admin |-> FALSE, file_id |-> <<>>, status |-> 0,
     docs |-> <<>>, data |-> <<>>, media_type |-> None, filename |-> None]

IdleReq ==
    [pc |-> "idle", form |-> NoForm, documents |-> <<>>, files_meta |-> <<>>,
     submission |-> <<>>, status |-> 0, id |-> <<>>]

Init ==
    /\ session = [s \in Sessions |-> EmptySession]
    /\ blobs = [o \in {} |-> TRUE]
    /\ submissions = <<>>
    /\ nextOid = 0
    /\ now = 0
    /\ req = [r \in Requests |-> IdleReq]
    /\ uploaded = [o \in {} |-> TRUE]
    /\ resp = NoResp

\* The server clock advances.
Tick ==
    /\ now < MaxClock
    /\ now' = now + 1
    /\ UNCHANGED <<session, blobs, submissions, nextOid, req, uploaded, resp>>

\* Line 58: `not documents`, true of the empty list.
NeverEmpty(documents) == FALSE
NoDocuments(documents) == Len(documents) = 0

\* Lines 75-82: the record handed to insert_one.
BuildSubmission(form, files_meta, createdAt) ==
    [fullName |-> form.fullName, email |-> form.email,
     paymentDate |-> form.paymentDate, accountDetails |-> form.accountDetails,
     files |-> files_meta, createdAt |-> createdAt]

\* Lines 58-62: the request arrives. Zero documents raise HTTPException(400);
\* otherwise the loop starts (a loop over no documents falls through to line 75).
\* Requests are numbered in the order they arrive.
SubmitStart(r, form, documents) ==
    /\ req[r].pc = "idle"
    /\ IF r = 1 THEN TRUE ELSE req[r - 1].pc # "idle"
    /\ req' = [req EXCEPT ![r] =
                 IF NoDocuments(documents)
                 THEN [IdleReq EXCEPT !.pc = "done", !.form = form, !.status = 400]
                 ELSE IF Len(documents) = 0
                 THEN [IdleReq EXCEPT !.pc = "insert", !.form = form,
                                      !.submission = BuildSubmission(form, <<>>, now)]
                 ELSE [IdleReq EXCEPT !.pc = "upload", !.form = form,
                                      !.documents = documents]]
    /\ UNCHANGED <<session, blobs, submissions, nextOid, now, uploaded, resp>>

\* Line 64-68: what upload_from_stream stores for doc under a new id.
StoredFile(doc) ==
    [filename |-> doc.filename,
     metadata |-> [originalName |-> doc.filename, contentType |-> doc.content_type],
     data |-> doc.file]

\* Lines 69-73: the FileRef appended to files_meta.
PrependMeta(files_meta, file_id, doc) ==
    <<[fileId |-> StrOfOid(file_id), filename |-> doc.filename,
       contentType |-> doc.content_type]>> \o files_meta
AppendMeta(files_meta, file_id, doc) ==
    Append(files_meta,
           [fileId |-> StrOfOid(file_id), filename |-> doc.filename,
            contentType |-> doc.content_type])

\* insert_one adds the generated _id to the record it stores.
WithId(submission, oid) ==
    [_id |-> oid, fullName |-> submission.fullName, email |-> submission.email,
     paymentDate |-> submission.paymentDate,
     accountDetails |-> submission.accountDetails,
     files |-> submission.files, createdAt |-> submission.createdAt]

\* Line 84: insert_one adds a record to the collection, whatever it holds.
UpsertByEmail(store, submission, oid) ==
    IF \E k \in 1..Len(store) : store[k].email = submission.email
    THEN [k \in 1..Len(store) |->
            IF store[k].email = submission.email THEN WithId(submission, oid)
            ELSE store[k]]
    ELSE Append(store, WithId(submission, oid))
InsertOne(store, submission, oid) == Append(store, WithId(submission, oid))

\* upload_from_stream writes the file under the new id before it returns it.
UploadNotStored(store, oid, doc) == store
UploadFromStream(store, oid, doc) ==
    [o \in DOMAIN store \cup {oid} |-> IF o = oid THEN StoredFile(doc) ELSE store[o]]

\* Where the handler goes when upload_from_stream raises: the exception leaves
\* the handler (HTTP 500) and nothing after line 64 runs.
SwallowUploadError(q) ==
    [q EXCEPT !.pc = "insert", !.submission = BuildSubmission(q.form, q.files_meta, 0)]
OnUploadError(q) == [q EXCEPT !.pc = "failed", !.status = 500]

\* Lines 62-82: one turn of the loop. The upload of the next document either
\* completes (the file is stored and its id returned) or raises; after the
\* last document the record is built with the current clock reading.
UploadStep(r, ok) ==
    /\ req[r].pc = "upload"
    /\ LET q == req[r]
           i == Len(q.files_meta) + 1
           doc == q.documents[i]
           meta == AppendMeta(q.files_meta, nextOid, doc)
       IN IF ok
          THEN /\ blobs' = UploadFromStream(blobs, nextOid, doc)
               /\ uploaded' = [o \in DOMAIN uploaded \cup {nextOid} |->
                                 IF o = nextOid THEN <<r, i>> ELSE uploaded[o]]
               /\ nextOid' = nextOid + 1
               /\ req' = [req EXCEPT ![r] =
                            IF i = Len(q.documents)
                            THEN [q EXCEPT !.files_meta = meta, !.pc = "insert",
                                           !.submission =
                                               BuildSubmission(q.form, meta, now)]
                            ELSE [q EXCEPT !.files_meta = meta]]
          ELSE /\ req' = [req EXCEPT ![r] = OnUploadError(q)]
               /\ UNCHANGED <<blobs, uploaded, nextOid>>
    /\ UNCHANGED <<session, submissions, now, resp>>

\* Lines 84-85: insert_one stores the record under a generated _id and the
\* handler answers {"success": True, "id": str(inserted_id)}; or it raises.
InsertStep(r, ok) ==
    /\ req[r].pc = "insert"
    /\ IF ok
       THEN /\ submissions' = InsertOne(submissions, req[r].submission, nextOid)
            /\ nextOid' = nextOid + 1
            /\ req' = [req EXCEPT ![r].pc = "done", ![r].status = 200,
                                  ![r].id = StrOfOid(nextOid)]
       ELSE /\ req' = [req EXCEPT ![r].pc = "failed", ![r].status = 500]
            /\ UNCHANGED <<submissions, nextOid>>
    /\ UNCHANGED <<session, blobs, now, uploaded, resp>>

\* The request stops at one of its suspension points (the client drops the
\* connection or the process dies) and never resumes.
Crash(r) ==
    /\ req[r].pc \in {"upload", "insert"}
    /\ req' = [req EXCEPT ![r].pc = "crashed"]
    /\ UNCHANGED <<session, blobs, submissions, nextOid, now, uploaded, resp>>

\* ---------------------------------------------------------------- admin routes
AdminRoutes == {"login", "logout", "list", "download"}
\* The routes declared with admin=Depends(admin_required).
GuardedRoutes == {"logout", "list", "download"}

\* Whether a session carries the admin flag, set and true.
HasAdminFlag(d) == "admin" \in DOMAIN d /\ d["admin"] = PyTrue

\* The request of client s as it arrives, before any response.
Request(s, op, file_id) ==
    [NoResp EXCEPT !.sess = s, !.op = op, !.admin = HasAdminFlag(session[s]),
                   !.file_id = file_id]

\* Line 46: HTTPException(status_code=403).
Forbidden(s, op, file_id) == [Request(s, op, file_id) EXCEPT !.status = 403]

\* Lines 88-91: admin_login sets the flag, whoever calls.
admin_login(s) ==
    /\ session' = [session EXCEPT ![s] = DictSet(session[s], "admin", PyTrue)]
    /\ resp' = [Request(s, "login", <<>>) EXCEPT !.status = 200]
    /\ UNCHANGED <<blobs, submissions, nextOid, now, req, uploaded>>

\* request.session.clear()
KeepSession(d) == d
SessionClear(d) == EmptySession

\* Lines 93-96: admin_logout.
admin_logout(s) ==
    /\ IF admin_required(session[s])
       THEN /\ session' = [session EXCEPT ![s] = SessionClear(session[s])]
            /\ resp' = [Request(s, "logout", <<>>) EXCEPT !.status = 200]
       ELSE /\ resp' = Forbidden(s, "logout", <<>>)
            /\ UNCHANGED session
    /\ UNCHANGED <<blobs, submissions, nextOid, now, req, uploaded>>

\* Lines 104-106 on one document of the cursor: _id and every fileId through str().
Display(doc) ==
    [doc EXCEPT !._id = StrOfOid(doc._id),
                !.files = [k \in 1..Len(doc.files) |->
                             [doc.files[k] EXCEPT !.fileId = StrOfStr(doc.files[k].fileId)]]]

\* Line 102: find().sort("createdAt", -1) yields the documents by createdAt
\* descending; the server fixes no order among documents with equal keys, so
\* every such order is a possible result of a call.
SortOrders(store) ==
    {p \in Permutations(1..Len(store)) :
        \A i, j \in 1..Len(store) :
            i < j => store[p[i]].createdAt >= store[p[j]].createdAt}

\* Lines 99-108: list_submissions. The documents the cursor yields are copies:
\* converting their fields leaves the collection as it is.
list_submissions(s, order) ==
    /\ IF admin_required(session[s])
       THEN LET docs == [k \in 1..Len(submissions) |-> Display(submissions[order[k]])]
            IN resp' = [Request(s, "list", <<>>) EXCEPT !.status = 200, !.docs = docs]
       ELSE resp' = Forbidden(s, "list", <<>>)
    /\ UNCHANGED <<session, blobs, submissions, nextOid, now, req, uploaded>>

\* mimetypes.guess_type on the attachment name, as FileResponse uses it when it
\* is given media_type=None.
GuessType(name) ==
    IF name = "receipt.pdf" THEN "application/pdf" ELSE None

\* dict.get(key, default): the default only when the key is absent.
DictGetDefault(d, k, default) == IF k \in DOMAIN d THEN d[k] ELSE default

\* Lines 125-129: the FileResponse built from file_info and the streamed bytes.
FileResponse(file_info) ==
    LET declared == DictGetDefault(DictGetDefault(file_info, "metadata", EmptySession),
                                   "contentType", "application/octet-stream")
        name == DictGetDefault(DictGetDefault(file_info, "metadata", EmptySession),
                               "originalName", file_info.filename)
        guessed == GuessType(name)
    IN [media_type |-> IF declared # None THEN declared
                       ELSE IF guessed # None THEN guessed ELSE "text/plain",
        filename |-> name,
        data |-> file_info.data]

\* Lines 113-129: the body of the try block. It raises InvalidId for a
\* malformed identifier, HTTPException(404) when find_one returns nothing, and
\* TypeError when the object open_download_stream returned is not an async
\* iterable (iterable = FALSE: the call is a coroutine method and is not
\* awaited); otherwise it returns the response.
TryDownload(file_id, iterable) ==
    IF ~ValidOid(file_id) THEN [raised |-> "InvalidId", code |-> 0]
    ELSE IF ObjectId(file_id) \notin DOMAIN blobs
         THEN [raised |-> "HTTPException", code |-> 404]
    ELSE IF ~iterable THEN [raised |-> "TypeError", code |-> 0]
    ELSE [raised |-> "none", code |-> 200]

\* Lines 130-131: except Exception catches whatever the try block raised,
\* HTTPException included, and raises HTTPException(400) in its place.
StatusOf(outcome) == IF outcome.raised # "none" THEN 400 ELSE outcome.code

\* Lines 111-131: download_file.
download_file(s, file_id, iterable) ==
    /\ IF admin_required(session[s])
       THEN LET outcome == TryDownload(file_id, iterable)
                base == [Request(s, "download", file_id) EXCEPT
                                       !.status = StatusOf(outcome)]
            IN IF outcome.raised = "none"
               THEN LET r == FileResponse(blobs[ObjectId(file_id)])
                    IN resp' = [base EXCEPT !.data = r.data,
                                            !.media_type = r.media_type,
                                            !.filename = r.filename]
               ELSE resp' = base
       ELSE resp' = Forbidden(s, "download", file_id)
    /\ UNCHANGED <<session, blobs, submissions, nextOid, now, req, uploaded>>

\* Path parameters a client can send: the string of every id generated so far,
\* of the next one (well formed, no object yet), and malformed strings.
Malformed == {HexOf(0, OidHexLen - 1), Append(HexOf(0, OidHexLen - 1), "g")}
FileIds == {StrOfOid(k) : k \in 0..nextOid} \cup Malformed

\* ---------------------------------------------------------------- specifications
\* Concurrent submissions with every input.
NextSubmit ==
    \/ Tick
    \/ \E r \in Requests, form \in Forms, documents \in DocumentLists :
           SubmitStart(r, form, documents)
    \/ \E r \in Requests, ok \in BOOLEAN : UploadStep(r, ok)
    \/ \E r \in Requests, ok \in BOOLEAN : InsertStep(r, ok)
    \/ \E r \in Requests : Crash(r)

SpecSubmit == Init /\ [][NextSubmit]_vars

\* The submissions the admin specification takes as inputs.
AdminDocumentLists == {<<>>, <<DocRaw>>, <<DocPdf, DocRaw>>}

\* Every handler, the admin routes interleaved with submissions.
Next ==
    \/ Tick
    \/ \E r \in Requests, documents \in AdminDocumentLists :
           SubmitStart(r, JaneDoe, documents)
    \/ \E r \in Requests, ok \in BOOLEAN : UploadStep(r, ok)
    \/ \E r \in Requests, ok \in BOOLEAN : InsertStep(r, ok)
    \/ \E r \in Requests : Crash(r)
    \/ \E s \in Sessions : admin_login(s)
    \/ \E s \in Sessions : admin_logout(s)
    \/ \E s \in Sessions, order \in SortOrders(submissions) : list_submissions(s, order)
    \/ \E s \in Sessions, file_id \in FileIds, iterable \in BOOLEAN :
           download_file(s, file_id, iterable)

Spec == Init /\ [][Next]_vars
\* ---------------------------------------------------------------- properties
Succeeded(r) == req[r].pc = "done" /\ req[r].status = 200
Stopped(r) == req[r].pc \in {"failed", "crashed"}

\* The stored records that reference a file uploaded by request r.
RecordsOf(r) ==
    {k \in 1..Len(submissions) :
        \E i \in 1..Len(submissions[k].files) :
            LET f == submissions[k].files[i].fileId
            IN /\ ValidOid(f)
               /\ ObjectId(f) \in DOMAIN uploaded
               /\ uploaded[ObjectId(f)][1] = r}

\* The ids of the files request r uploaded.
UploadsOf(r) == {o \in DOMAIN uploaded : uploaded[o][1] = r}

\* The file ids of every stored record.
ReferencedIds ==
    UNION {{submissions[k].files[i].fileId : i \in 1..Len(submissions[k].files)} :
              k \in 1..Len(submissions)}

\* C1 as stated: a request to any /admin/ route, login included, that arrives
\* without the admin flag is answered 403.
C1_EveryAdminRouteForbidden ==
    (resp.op \in AdminRoutes /\ ~resp.admin) => resp.status = 403

\* C1, amended: a request to a guarded route (logout, submissions, file/{id})
\* that arrives without the admin flag is answered 403, whatever the path.
C1_GuardedRouteForbidden ==
    (resp.op \in GuardedRoutes /\ ~resp.admin) => resp.status = 403

\* A download without the admin flag was rejected, for a path that names a
\* stored file.
C1_Witness ==
    /\ resp.op = "download" /\ ~resp.admin /\ resp.status = 403
    /\ ValidOid(resp.file_id) /\ ObjectId(resp.file_id) \in DOMAIN blobs

\* C2: in every session, a guarded route called right after login is not
\* answered 403; a logout that succeeds leaves the session empty; from then on
\* every guarded route of that session is answered 403, and only a login of
\* that session ends this; the flag a login set stays until that session's logout.
C2_LoginLogout ==
    [][\A s \in Sessions :
        LET mine == resp' # resp /\ resp'.sess = s
            guarded == mine /\ resp'.op \in GuardedRoutes
        IN /\ (resp.sess = s /\ resp.op = "login" /\ guarded) => resp'.status # 403
           /\ (HasAdminFlag(session[s]) /\ guarded) => resp'.status # 403
           /\ (mine /\ resp'.op = "login") => HasAdminFlag(session'[s])
           /\ (mine /\ resp'.op = "logout" /\ resp'.status = 200)
                  => session'[s] = EmptySession
           /\ (resp.sess = s /\ resp.op = "logout" /\ resp.status = 200 /\ guarded)
                  => resp'.status = 403
           /\ (session[s] = EmptySession /\ guarded) => resp'.status = 403
           /\ (session[s] = EmptySession /\ session'[s] # EmptySession)
                  => (resp'.sess = s /\ resp'.op = "login")
           /\ (HasAdminFlag(session[s]) /\ ~HasAdminFlag(session'[s]))
                  => (resp'.sess = s /\ resp'.op = "logout")
      ]_vars

\* A session logged out (so it had logged in) and is empty, while the other
\* session still carries its flag.
C2_Witness ==
    /\ resp.op = "logout" /\ resp.status = 200
    /\ session[resp.sess] = EmptySession
    /\ \E s \in Sessions : HasAdminFlag(session[s])

\* C3: an admin download of a well-formed id with no stored object is answered
\* 404, and 400 answers only a malformed id.
C3_UnknownFileIs404 ==
    (resp.op = "download" /\ resp.admin) =>
        /\ (ValidOid(resp.file_id) /\ ObjectId(resp.file_id) \notin DOMAIN blobs)
               => resp.status = 404
        /\ resp.status = 400 => ~ValidOid(resp.file_id)

C5_FilesInUploadOrder ==
    /\ Len(submissions) = Cardinality({r \in Requests : Succeeded(r)})
    /\ \A r \in Requests :
          Succeeded(r) =>
              LET mine == {k \in 1..Len(submissions) :
                              StrOfOid(submissions[k]._id) = req[r].id}
              IN /\ Cardinality(mine) = 1
                 /\ \A k \in mine :
                       LET files == submissions[k].files
                           documents == req[r].documents
                       IN /\ Len(files) = Len(documents)
                          /\ \A i \in 1..Len(files) :
                                /\ files[i].filename = documents[i].filename
                                /\ files[i].contentType = documents[i].content_type
                                /\ ValidOid(files[i].fileId)
                                /\ ObjectId(files[i].fileId) \in DOMAIN uploaded
                                /\ uploaded[ObjectId(files[i].fileId)] = <<r, i>>

\* Two submissions whose uploads interleaved both succeeded, each with two
\* different files.
C5_Witness ==
    /\ \A r \in Requests :
          Succeeded(r) /\ Len(req[r].documents) = 2
                       /\ req[r].documents[1] # req[r].documents[2]
    /\ \E o \in DOMAIN uploaded : uploaded[o][1] = 1 /\ o + 1 \in DOMAIN uploaded
                                  /\ uploaded[o + 1][1] = 2
                                  /\ o + 2 \in DOMAIN uploaded
                                  /\ uploaded[o + 2][1] = 1

\* C6: when a record is inserted, every fileId in its files names an object
\* the Blob Store holds.
C6_FilesStoredAtInsert ==
    [][\A k \in (Len(submissions) + 1)..Len(submissions') :
          \A i \in 1..Len(submissions'[k].files) :
              /\ ValidOid(submissions'[k].files[i].fileId)
              /\ ObjectId(submissions'[k].files[i].fileId) \in DOMAIN blobs'
      ]_vars

\* A record with two files was inserted while another request had failed
\* after an upload.
C6_Witness ==
    /\ \E k \in 1..Len(submissions) : Len(submissions[k].files) = 2
    /\ \E r \in Requests : Stopped(r) /\ UploadsOf(r) # {}

\* The latest response is a list of every stored record, each once, newest first.
ListsEveryRecordOnce ==
    /\ Len(resp.docs) = Len(submissions)
    /\ \A k \in 1..Len(submissions) :
          Cardinality({j \in 1..Len(resp.docs) :
                          resp.docs[j] = Display(submissions[k])}) = 1
    /\ \A i, j \in 1..Len(resp.docs) :
          i < j => resp.docs[i].createdAt >= resp.docs[j].createdAt

C8_RoundTrip ==
    \A k \in 1..Len(submissions) :
        \A i \in 1..Len(submissions[k].files) :
            LET f == submissions[k].files[i]
                origin == uploaded[ObjectId(f.fileId)]
            IN (resp.op = "download" /\ resp.admin /\ resp.file_id = f.fileId) =>
                   /\ resp.status = 200
                   /\ resp.data = req[origin[1]].documents[origin[2]].file
                   /\ resp.media_type = f.contentType
                   /\ resp.filename = f.filename

\* C9: a stored record is never changed or removed: the collection only grows
\* and every record keeps the value it was inserted with.
C9_CreateOnly ==
    [][/\ Len(submissions') >= Len(submissions)
       /\ \A k \in 1..Len(submissions) : submissions'[k] = submissions[k]
      ]_vars

\* Two records are stored and an admin has listed them and then asked for a file.
C9_Witness ==
    /\ Len(submissions) = 2
    /\ resp.op = "download" /\ resp.admin
    /\ \E s \in Sessions : session[s] = EmptySession

\* C10: a request inserts at most one record, and only after every one of its
\* uploads succeeded: a request whose upload failed, or that stopped before the
\* insert, has none. The files it uploaded stay in the Blob Store as they were
\* written, referenced by no record.
C10_NotAtomic ==
    /\ Len(submissions) = Cardinality({r \in Requests : Succeeded(r)})
    /\ \A r \in Requests :
          /\ Cardinality(RecordsOf(r)) <= 1
          /\ Succeeded(r) => Cardinality(UploadsOf(r)) = Len(req[r].documents)
          /\ Stopped(r) =>
                /\ RecordsOf(r) = {}
                /\ \A o \in UploadsOf(r) : StrOfOid(o) \notin ReferencedIds
    /\ \A o \in DOMAIN uploaded :
          /\ o \in DOMAIN blobs
          /\ blobs[o] = StoredFile(req[uploaded[o][1]].documents[uploaded[o][2]])

\* A request failed after uploading a file: the file is stored, no record
\* references it, and an admin has since asked for it.
C10_Witness ==
    \E r \in Requests :
        /\ Stopped(r)
        /\ UploadsOf(r) # {}
        /\ \A o \in UploadsOf(r) : o \in DOMAIN blobs /\ StrOfOid(o) \notin ReferencedIds
        /\ resp.op = "download" /\ resp.admin
        /\ ValidOid(resp.file_id) /\ ObjectId(resp.file_id) \in UploadsOf(r)
====
